---- MODULE Spec2Model ----
(***************************************************************************)
(* Model of the ipm resolver / installer / cache pipeline.                 *)
(*                                                                         *)
(* Version strings and range texts are records [op, v]:                    *)
(*   [op |-> "eq",     v |-> k]   the text "1.k.0"  (a concrete version,   *)
(*                                and also the exact range "1.k.0")        *)
(*   [op |-> "caret",  v |-> k]   the text "^1.k.0"                        *)
(*   [op |-> "latest", v |-> 0]   the text "latest"                        *)
(*   [op |-> "json",   v |-> k]   the text "1.k.0.json" (what the glob of  *)
(*                                GetCachedVersions yields for a sidecar)  *)
(*   [op |-> "none",   v |-> 0]   the empty string / absent map entry      *)
(*   [op |-> "file",   v |-> 0]   a regular file at a project path         *)
(*   [op |-> "veq",    v |-> k]   the text "v1.k.0"  (the same version with *)
(*                                a leading v)                              *)
(*   [op |-> "build",  v |-> k]   the text "1.k.0+build" (the same version  *)
(*                                with build metadata)                      *)
(*   [op |-> "junk",   v |-> 0]   a text that is neither a version nor a    *)
(*                                range                                     *)
(*   [op |-> "le",     v |-> k]   the text "<=1.k.0"                        *)
(***************************************************************************)
EXTENDS Integers, Sequences, FiniteSets, TLC

VARIABLES registry, tagDocs, tarballs, rootSpec, cacheEntries, cacheMeta, links, installed,
          nodes, conflicts, stack, outcome, netCalls, storeOps, linkOps,
          run, cache0, links0, first, lastOp,
          cacheFiles, outside, proc, pubKey, pkgFile, sigFile, verdict,
          mapped, requests, pkgData, resolving, npmRegistry, cli

vars == <<registry, tagDocs, tarballs, rootSpec, cacheEntries, cacheMeta, links, installed,
          nodes, conflicts, stack, outcome, netCalls, storeOps, linkOps,
          run, cache0, links0, first, lastOp,
          cacheFiles, outside, proc, pubKey, pkgFile, sigFile, verdict,
          mapped, requests, pkgData, resolving, npmRegistry, cli>>

\* ------------------------------------------------------------------ bounds
MaxVer == 2

\* ------------------------------------------------------------ the universe
Names == {"a", "b", "c"}

VersionsOf(n) == IF n = "b" THEN 1..MaxVer ELSE {1}

Packages == {p \in Names \X (1..MaxVer) : p[2] \in VersionsOf(p[1])}

None == [op |-> "none", v |-> 0]
Latest == [op |-> "latest", v |-> 0]
File == [op |-> "file", v |-> 0]
Ver(k) == [op |-> "eq", v |-> k]
Caret(k) == [op |-> "caret", v |-> k]
Json(k) == [op |-> "json", v |-> k]
Le(k) == [op |-> "le", v |-> k]

RangesOf(n) == {Ver(k) : k \in VersionsOf(n)} \cup {Caret(1), Latest}

EmptyPackage == [Name |-> "", Version |-> None, Deps |-> {}]

\* ------------------------------------------------------------ semver
\* semver.NewVersion accepts a leading v and build metadata
IsVersion(t) == t.op \in {"eq", "veq", "build"}

IsConstraint(t) == t.op \in {"eq", "caret", "le"}

Check(t, k) ==
  IF t.op = "eq" THEN k = t.v ELSE IF t.op = "le" THEN k <= t.v ELSE k >= t.v

Max(S) == CHOOSE x \in S : \A y \in S : y <= x

satisfiesVersion(version, rangeSpec) ==
  IF rangeSpec = Latest THEN FALSE
  ELSE IF ~IsVersion(version) THEN version = rangeSpec
  ELSE IF ~IsConstraint(rangeSpec) THEN version = rangeSpec
  ELSE Check(rangeSpec, version.v)

\* ------------------------------------------------------------ archives
\* A package archive is a gzip stream around a tar stream:
\*   gz       "go"    the bytes this program's gzip and tar writers emit for
\*                    the entries,
\*            "other" another framing of the same entries (gzip header
\*                    fields, compression level, tar padding),
\*            "bad"   not a gzip stream (gzip.NewReader fails);
\*   entries  the tar members in stream order, each with the header's name
\*            and type and the body: <<k>> for file content k, and
\*            <<key, hash>> for a signature made with key over hash;
\*   cut      the tar stream breaks off after the entries (tr.Next fails).
Entry(name, type, body) == [name |-> name, type |-> type, body |-> body]

Archive(gz, entries, cut) == [gz |-> gz, entries |-> entries, cut |-> cut]

Plain ==
  <<Entry("package/lib", "dir", <<>>), Entry("package/index.js", "reg", <<1>>)>>

OkArchive == Archive("go", Plain, FALSE)

BadGzip == Archive("bad", <<>>, FALSE)

BadTar == Archive("go", <<Entry("package/lib", "dir", <<>>)>>, TRUE)

DotDot == Archive("go", Plain \o <<Entry("package/../../x", "reg", <<1>>)>>, FALSE)

Absolute == Archive("go", Plain \o <<Entry("/x", "reg", <<1>>)>>, FALSE)

Symlink == Archive("go", Plain \o <<Entry("package/link", "link", <<>>)>>, FALSE)

NoArchive == Archive("", <<>>, FALSE)

Archives == {OkArchive, BadGzip, BadTar, DotDot, Absolute, Symlink}

\* gzip.NewReader fails
GzipErr(archive) == archive.gz = "bad"

\* ------------------------------------------------------------ signatures
\* Keys are numbered; private key k and public key k are a matching pair,
\* 0 stands for no key.  A hash stands for the bytes it was computed from.
Keys == {1, 2}

Sha256(data) == <<"sha256", data>>

SignPKCS1v15(key, hash) == <<key, hash>>

VerifyPKCS1v15(pub, hash, sig) ==
  Len(sig) = 2 /\ sig[1] = pub /\ sig[2] = hash

\* the bytes that a gzip.Writer around a tar.Writer emits for the entries
Reserialize(entries) == Archive("go", entries, FALSE)

IsSig(e) == e.name = "signature.sig"

\* signPackage (embedded form): the signature is made over the bytes of the
\* file as read; every member is copied to the new archive and a member
\* signature.sig is added after them.  A read error leaves the file as it is.
signPackage(file, key) ==
  IF GzipErr(file) \/ file.cut THEN [err |-> TRUE, file |-> file]
  ELSE [err |-> FALSE,
        file |-> Reserialize(file.entries \o
                   <<Entry("signature.sig", "reg",
                           SignPKCS1v15(key, Sha256(file)))>>)]

\* verifyTarball: the body of the last member named signature.sig is the
\* signature, the other members are written to a new archive, and the
\* signature is checked against the hash of that archive's bytes.
verifyTarball(tarballData, pub) ==
  LET sigs == SelectSeq(tarballData.entries, IsSig)
      rest == SelectSeq(tarballData.entries, LAMBDA e : ~IsSig(e))
  IN IF GzipErr(tarballData) \/ tarballData.cut THEN "error"
     ELSE IF sigs = <<>> THEN "unsigned"
     ELSE IF VerifyPKCS1v15(pub, Sha256(Reserialize(rest)), sigs[Len(sigs)].body)
       THEN "verified"
     ELSE "bad"

\* signPackage (detached form, cmd/ipm/package.go): the signature over the
\* bytes of the file is written to <file>.sig
signPackageDetached(file, key) == SignPKCS1v15(key, Sha256(file))

\* verifyPackage (detached form): a missing <file>.sig and a signature that
\* does not verify are both logged as a warning and nil is returned
verifyPackageDetached(file, sig, pub) ==
  IF sig = <<>> THEN "unsigned"
  ELSE IF VerifyPKCS1v15(pub, Sha256(file), sig) THEN "verified"
  ELSE "warned"

\* ------------------------------------------------------------ registry
DistTagLatest(name) == Max(VersionsOf(name))

ResolveVersion(name, versionRange) ==
  IF name \notin Names THEN [err |-> TRUE, version |-> None]
  ELSE IF versionRange = Latest
    THEN [err |-> FALSE, version |-> Ver(DistTagLatest(name))]
  ELSE IF ~IsConstraint(versionRange) THEN [err |-> TRUE, version |-> None]
  ELSE LET ok == {k \in VersionsOf(name) : Check(versionRange, k)}
       IN IF ok = {} THEN [err |-> TRUE, version |-> None]
          ELSE [err |-> FALSE, version |-> Ver(Max(ok))]

\* GET <base>/<name>/<version>: the document of a published version; for the
\* text "latest" the registry answers with the tagged version's document when
\* it serves tag documents (tagDocs) and with 404 when it does not.
FetchPackageTarball(name, version) ==
  LET k == IF version = Latest /\ name \in Names THEN DistTagLatest(name)
           ELSE version.v
  IN IF /\ IsVersion(version) \/ (version = Latest /\ tagDocs)
        /\ <<name, k>> \in DOMAIN registry
       THEN [err |-> FALSE, tarball |-> tarballs[<<name, k>>],
             pkg |-> [Name |-> name, Version |-> Ver(k), Deps |-> registry[<<name, k>>]]]
       ELSE [err |-> TRUE, tarball |-> NoArchive, pkg |-> EmptyPackage]

\* The registry client: the base URL and the token it is constructed with.
DefaultURL == "https://registry.npmjs.org"

NewNPMRegistry(baseURL, token) == [BaseURL |-> baseURL, Token |-> token]

\* the Authorization header of a request; <<>> when the header is not set
Authorization(r) == IF r.Token # "" THEN <<"Bearer", r.Token>> ELSE <<>>

\* ResolveVersion sends GET <BaseURL>/<name>
DocumentRequest(r) ==
  [kind |-> "document", base |-> r.BaseURL, auth |-> Authorization(r)]

\* FetchPackageTarball sends GET <BaseURL>/<name>/<version> and, when it got
\* the version document f, GET of the URL the document names as dist.tarball
FetchRequests(r, f) ==
  {[kind |-> "metadata", base |-> r.BaseURL, auth |-> Authorization(r)]}
  \cup (IF f.err THEN {}
        ELSE {[kind |-> "tarball", base |-> "dist.tarball", auth |-> Authorization(r)]})

\* A package document as ResolveVersion decodes it: the keys of "versions"
\* and the entry "latest" of "dist-tags" (None when there is none).
Junk == [op |-> "junk", v |-> 0]

NoVersion == [err |-> TRUE, version |-> None]

\* a resolution of "latest" by the greatest key of versions
ResolveLatest_Greatest(data) ==
  LET ok == {t \in data.Versions : IsVersion(t)}
  IN IF ok = {} THEN NoVersion
     ELSE [err |-> FALSE,
           version |-> CHOOSE t \in ok : \A u \in ok : u.v <= t.v]

\* lines 161-174: the range text "latest"
ResolveLatest(data) ==
  IF data.DistTags # None THEN [err |-> FALSE, version |-> data.DistTags]
  ELSE NoVersion

\* a comparison the other way round
GreaterThan_Less(ver, other) == ver.v < other.v

\* Version.GreaterThan compares major, minor, patch and prerelease; a
\* leading v and build metadata take no part
GreaterThan(ver, other) == ver.v > other.v

\* lines 186-194: one iteration of the loop over the keys of versions, with
\* latest the version kept so far (None for nil)
Keep(latest, verStr, versionRange) ==
  IF ~IsVersion(verStr) THEN latest
  ELSE IF Check(versionRange, verStr.v) /\ (latest = None \/ GreaterThan(verStr, latest))
    THEN verStr
  ELSE latest

\* ------------------------------------------------------------ cache
\* os.Stat(<CacheDir>/<name>-<version>) finds a directory entry or, for a
\* version text ending in ".json", the sidecar file of that entry.
PathExists(entries, meta, name, version) ==
  \/ version.op = "eq" /\ <<name, version.v>> \in entries
  \/ version.op = "json" /\ <<name, version.v>> \in DOMAIN meta

Exists(pkg) == PathExists(cacheEntries, cacheMeta, pkg.Name, pkg.Version)

LoadMetadata(pkg) ==
  IF pkg.Version.op = "eq" /\ <<pkg.Name, pkg.Version.v>> \in DOMAIN cacheMeta
    THEN [err |-> FALSE, pkg |-> cacheMeta[<<pkg.Name, pkg.Version.v>>]]
    ELSE [err |-> TRUE, pkg |-> EmptyPackage]

\* filepath.Glob(<CacheDir>/<name>-*) in its sorted order, "<name>-" trimmed:
\* "1.k.0" (the directory) comes right before "1.k.0.json" (the sidecar).
RECURSIVE GlobFrom(_, _)
GlobFrom(name, k) ==
  IF k > MaxVer THEN <<>>
  ELSE (IF <<name, k>> \in cacheEntries THEN <<Ver(k)>> ELSE <<>>)
       \o (IF <<name, k>> \in DOMAIN cacheMeta THEN <<Json(k)>> ELSE <<>>)
       \o GlobFrom(name, k + 1)

GetCachedVersions(name) == GlobFrom(name, 1)

HasCachedVersion(name) == Len(GetCachedVersions(name)) > 0

\* What an entry directory can hold, by path relative to the directory, and
\* the state of each path: absent, created but not yet written, written.
EntryFiles == {"lib", "index.js", "x", "signature.sig", "package.json"}

FileStates == {"absent", "partial", "full"}

NoFiles == [f \in EntryFiles |-> "absent"]

\* line 83: filepath.Join(pkgPath, strings.TrimPrefix(header.Name, "package/")).
\* Join cleans the path: ".." elements climb out of pkgPath, a leading "/" of
\* the member name is just a separator.
TargetPath(name) ==
  CASE name = "package/lib" -> [inside |-> TRUE, file |-> "lib"]
    [] name = "package/index.js" -> [inside |-> TRUE, file |-> "index.js"]
    [] name = "package/../../x" -> [inside |-> FALSE, file |-> "x"]
    [] name = "/x" -> [inside |-> TRUE, file |-> "x"]
    [] name = "package/link" -> [inside |-> TRUE, file |-> "link"]
    [] name = "package/package.json" -> [inside |-> TRUE, file |-> "package.json"]
    [] OTHER -> [inside |-> TRUE, file |-> name]

\* lines 85-108: the switch on header.Typeflag has the cases TypeDir and
\* TypeReg and no default
Extracted(type) == type \in {"dir", "reg"}

\* one member written in full: st is [files, outside], the paths of the entry
\* directory and the path ../../x outside the cache root
ExtractEntry(st, e) ==
  IF ~Extracted(e.type) THEN st
  ELSE IF TargetPath(e.name).inside
    THEN [st EXCEPT !.files[TargetPath(e.name).file] = "full"]
    ELSE [st EXCEPT !.outside = "full"]

RECURSIVE ExtractFrom(_, _, _)
ExtractFrom(st, archive, i) ==
  IF i > Len(archive.entries) THEN st
  ELSE ExtractFrom(ExtractEntry(st, archive.entries[i]), archive, i + 1)

\* Cache.Store: the entry directory is created and the archive extracted only
\* when os.Stat reports the directory missing.
StoreWrites(entries, meta, pkg) ==
  ~PathExists(entries, meta, pkg.Name, pkg.Version)

\* Store returns ("", err) when the extraction it started fails
StoreErr(entries, meta, pkg, archive) ==
  StoreWrites(entries, meta, pkg) /\ (GzipErr(archive) \/ archive.cut)

\* a Store that creates no entry directory
StoreEntries_Never(entries, meta, pkg) == entries

\* MkdirAll(pkgPath) comes before the archive is opened
StoreEntries(entries, meta, pkg) ==
  IF StoreWrites(entries, meta, pkg)
    THEN entries \cup {<<pkg.Name, pkg.Version.v>>}
    ELSE entries

\* the sidecar is written after the last member of the archive
StoreMeta(entries, meta, pkg, archive) ==
  IF StoreWrites(entries, meta, pkg) /\ ~StoreErr(entries, meta, pkg, archive)
    THEN [f \in DOMAIN meta \cup {<<pkg.Name, pkg.Version.v>>} |->
            IF f = <<pkg.Name, pkg.Version.v>> THEN pkg ELSE meta[f]]
    ELSE meta

\* lines 73-109: the members extracted into the entry directory, and beside it
StoreFiles(entries, meta, files, out, pkg, archive) ==
  IF StoreWrites(entries, meta, pkg) /\ ~GzipErr(archive)
    THEN [files EXCEPT ![<<pkg.Name, pkg.Version.v>>] =
            ExtractFrom([files |-> @, outside |-> out], archive, 1).files]
    ELSE files

StoreOutside(entries, meta, files, out, pkg, archive) ==
  IF StoreWrites(entries, meta, pkg) /\ ~GzipErr(archive)
    THEN ExtractFrom([files |-> files[<<pkg.Name, pkg.Version.v>>], outside |-> out],
                     archive, 1).outside
    ELSE out

StorePath(pkg) == <<pkg.Name, pkg.Version>>

\* Cache.Link on the project path <targetDir>/<pkg.Name>, whose current
\* content is cur: None (absent), File (not a symlink) or the version text
\* of the cache entry a symlink points to.
\* a Link that never finds the symlink already in place
LinkNoop_Never(cur, pkg) == FALSE

LinkNoop(cur, pkg) == cur = pkg.Version

LinkErr(cur, pkg) == cur = File

\* a Link that keeps whatever symlink is already at the path
LinkResult_KeepsOld(cur, pkg) ==
  IF cur # None THEN cur ELSE pkg.Version

LinkResult(cur, pkg) ==
  IF LinkNoop(cur, pkg) \/ LinkErr(cur, pkg) THEN cur ELSE pkg.Version

\* lines 409-428 of installDependency: the scan over the cached versions.
\* cachedDep is overwritten by every LoadMetadata, also by a failing one.
RECURSIVE ScanCached(_, _, _, _)
ScanCached(cachedDep, versions, i, depVersion) ==
  IF i > Len(versions) THEN [hit |-> FALSE, dep |-> cachedDep]
  ELSE LET cd == [cachedDep EXCEPT !.Version = versions[i]]
       IN IF Exists(cd)
            THEN LET lm == LoadMetadata(cd)
                 IN IF ~lm.err /\ satisfiesVersion(lm.pkg.Version, depVersion)
                      THEN [hit |-> TRUE, dep |-> lm.pkg]
                      ELSE ScanCached(lm.pkg, versions, i + 1, depVersion)
            ELSE ScanCached(cd, versions, i + 1, depVersion)

\* ------------------------------------------------------------ inputs
\* A registry snapshot maps every published package to its declared
\* dependencies, a set of <<depName, rangeText>> with one range per name.
DepOptions(n) == {{}} \cup {{<<n, r>>} : r \in RangesOf(n)}

Registries ==
  {[p \in Packages |->
      IF p[1] = "a" THEN da ELSE IF p[1] = "c" THEN dc ELSE {}] :
    da \in {x \cup y : x \in DepOptions("b"), y \in DepOptions("c")},
    dc \in DepOptions("b")}

\* Ver(MaxVer + 1) is a version the registry does not have.
RootSpecs ==
  {[name |-> "a", ver |-> r] : r \in {Ver(1), Ver(MaxVer + 1), Caret(1), Latest}}

\* The archive the registry serves for each package: all intact, or the one
\* of the newest b damaged.
Tarballs ==
  {[p \in Packages |-> IF p = <<"b", MaxVer>> THEN t ELSE OkArchive] :
     t \in {OkArchive, BadTar}}

\* the files of the entries of a cache whose every entry is complete
FilesOf(entries) ==
  [p \in Packages |->
     IF p \in entries THEN ExtractFrom([files |-> NoFiles, outside |-> "absent"],
                                       OkArchive, 1).files
     ELSE NoFiles]

SidecarsOf(reg, entries) ==
  [p \in entries |-> [Name |-> p[1], Version |-> Ver(p[2]), Deps |-> reg[p]]]

NoLinks == [n \in Names |-> None]

\* What the project directory holds before the invocation: nothing, or at
\* node_modules/b a symlink left by an earlier install or a regular file.
InitialLinks ==
  {NoLinks} \cup {[NoLinks EXCEPT !["b"] = t] : t \in {Ver(1), File}}

\* The last direct call of a cache operation; tick alternates with every
\* call, so that two equal calls in a row are two steps.
NoOp ==
  [op |-> "none", name |-> "", ver |-> None, archive |-> NoArchive, wrote |-> FALSE,
   err |-> FALSE, tick |-> 0]

\* A process that calls cache operations; a Store in progress is at pc and
\* at member i of its archive.  ok and complete are what the last finished
\* call returned and whether the entry was complete when it returned.
NumProcs == 2

Procs == 1..NumProcs

ProcIdle ==
  [op |-> "none", pc |-> "idle", name |-> "", ver |-> None, i |-> 0,
   ok |-> FALSE, complete |-> FALSE]

NoResult ==
  [outcome |-> "none", links |-> NoLinks, conflicts |-> <<>>, entries |-> {}]

\* ------------------------------------------------------------ call stack
Frame(fn, pc, name, ver, todo) ==
  [fn |-> fn, pc |-> pc, name |-> name, ver |-> ver, todo |-> todo]

top == stack[1]

At(fn, pc) ==
  /\ outcome = "running"
  /\ stack # <<>>
  /\ top.fn = fn
  /\ top.pc = pc

\* return nil: back in the caller, or the invocation ends with exit code 0
ReturnNil ==
  /\ stack' = Tail(stack)
  /\ outcome' = IF Tail(stack) = <<>> THEN "ok" ELSE outcome

\* return err: every caller on the stack returns the error unchanged and
\* the install command exits with code 1
Fail ==
  /\ stack' = <<>>
  /\ outcome' = "error"

\* reportConflicts followed by os.Exit(1)
ExitConflict ==
  /\ stack' = <<>>
  /\ outcome' = "conflict"

Goto(frame) ==
  /\ stack' = <<frame>> \o Tail(stack)
  /\ outcome' = outcome

Call(callee, frame) ==
  /\ stack' = <<callee, frame>> \o Tail(stack)
  /\ outcome' = outcome

NewInstaller(spec) ==
  /\ installed' = [n \in Names |-> None]
  /\ nodes' = {}
  /\ conflicts' = <<>>
  /\ stack' = <<Frame("Install", "start", spec.name, spec.ver, {})>>
  /\ outcome' = "running"
  /\ netCalls' = 0
  /\ mapped' = {}
  /\ requests' = {}
  /\ storeOps' = {}
  /\ linkOps' = {}

\* No package document is being resolved on its own.
NoDocument == [Versions |-> {}, DistTags |-> None]

NotResolving ==
  [versionRange |-> None, pc |-> "idle", todo |-> {}, latest |-> None,
   results |-> <<>>]

\* The command line is parsed and the install command runs with the
\* registry client of the default URL and no token.
CliRun ==
  [pc |-> "run", registry |-> "", token |-> "",
   registryURL |-> DefaultURL, registryToken |-> ""]

\* the start of an install invocation on a registry snapshot, a root spec, a
\* cache and a project directory; file is the content of the file at the
\* path the spec names (NoArchive when there is no such file)
InitInvocationOf(file) ==
  /\ tagDocs \in (IF rootSpec.ver = Latest THEN BOOLEAN ELSE {TRUE})
  /\ cacheMeta = SidecarsOf(registry, cacheEntries)
  /\ mapped = {}
  /\ requests = {}
  /\ pkgData = NoDocument
  /\ resolving = NotResolving
  /\ npmRegistry = NewNPMRegistry(DefaultURL, "")
  /\ cli = CliRun
  /\ installed = [n \in Names |-> None]
  /\ nodes = {}
  /\ conflicts = <<>>
  /\ stack = <<Frame("Install", "start", rootSpec.name, rootSpec.ver, {})>>
  /\ outcome = "running"
  /\ netCalls = 0
  /\ storeOps = {}
  /\ linkOps = {}
  /\ run = 1
  /\ cache0 = cacheEntries
  /\ links0 = links
  /\ first = NoResult
  /\ lastOp = NoOp
  /\ cacheFiles = FilesOf(cacheEntries)
  /\ outside = "absent"
  /\ proc = [q \in Procs |-> ProcIdle]
  /\ pkgFile = file
  /\ sigFile = <<>>
  /\ verdict = [op |-> "none", key |-> 0, res |-> "none", input |-> NoArchive]

\* the spec is a package name, with or without a version
InitInvocation == InitInvocationOf(NoArchive)

\* the start of an install invocation, for any archives and any key option
InitInstall ==
  /\ registry \in Registries
  /\ rootSpec \in RootSpecs
  /\ cacheEntries \in SUBSET Packages
  /\ links \in InitialLinks
  /\ InitInvocation

\* install without --pubkey
Init ==
  /\ InitInstall
  /\ tarballs \in Tarballs
  /\ pubKey = 0

snapshot == <<registry, tagDocs, tarballs, rootSpec, pubKey, cache0, links0>>

\* what no step of an install changes
inputVars == <<snapshot, pkgData, resolving, npmRegistry, cli>>

toolVars == <<pkgFile, sigFile, verdict>>

env == <<inputVars, run, first, lastOp, proc, toolVars>>

cacheVars == <<cacheEntries, cacheMeta, storeOps, cacheFiles, outside>>

linkVars == <<links, linkOps, installed>>

solverVars == <<nodes, conflicts>>

\* the registry calls made, the requests sent with them, and the version
\* each use of a (name, range text) pair came to
netVars == <<netCalls, mapped, requests>>

\* ------------------------------------------------------------ solver
\* a node map in which no key is ever found
NodeKeys_Empty == {}

NodeKeys == {<<n.Name, n.Version>> : n \in nodes}

Perms(S) ==
  {f \in [1..Cardinality(S) -> S] : \A i, j \in DOMAIN f : f[i] = f[j] => i = j}

\* a record that names the new version twice
Conflict_NewTwice(node, name, version) ==
  [Package |-> name,
   Versions |-> <<version, version>>,
   Dependents |-> <<<<node.Name, node.Version>>, <<name, version>>>>]

Conflict(node, name, version) ==
  [Package |-> name,
   Versions |-> <<node.Version, version>>,
   Dependents |-> <<<<node.Name, node.Version>>, <<name, version>>>>]

HasConflicts == Len(conflicts) > 0

\* a conflict check that finds nothing
Clashing_None(ns, name, version) == {}

\* lines 53-54: the nodes of the same name and another version
Clashing(ns, name, version) ==
  {n \in ns : n.Name = name /\ n.Version # version}

\* Solver.AddPackage up to the insertion of the node (lines 33-67).  The
\* conflict check ranges over the node map, whose iteration order is any.
AddPackage ==
  /\ At("AddPackage", "start")
  /\ LET rv == ResolveVersion(top.name, top.ver)
         f == FetchPackageTarball(top.name, rv.version)
         known == <<top.name, rv.version>> \in NodeKeys
         clash == Clashing(nodes, top.name, rv.version)
     IN /\ netCalls' = netCalls + (IF rv.err \/ known THEN 1 ELSE 2)
        /\ requests' = requests \cup {DocumentRequest(npmRegistry)}
             \cup (IF rv.err \/ known THEN {} ELSE FetchRequests(npmRegistry, f))
        /\ mapped' = IF rv.err THEN mapped
                     ELSE mapped \cup {<<top.name, top.ver, rv.version>>}
        /\ IF rv.err THEN Fail /\ UNCHANGED solverVars
           ELSE IF known THEN ReturnNil /\ UNCHANGED solverVars
           ELSE IF f.err THEN Fail /\ UNCHANGED solverVars
           ELSE /\ \E order \in Perms(clash) :
                     conflicts' = conflicts \o
                       [i \in 1..Cardinality(clash) |->
                          Conflict(order[i], top.name, rv.version)]
                /\ nodes' = nodes \cup
                     {[Name |-> top.name, Version |-> rv.version, Deps |-> f.pkg.Deps]}
                /\ Goto(Frame("AddPackage", "deps", top.name, rv.version, f.pkg.Deps))
  /\ UNCHANGED <<env, cacheVars, linkVars>>

\* a loop that returns after the first dependency
AddPackageDeps_FirstOnly ==
  /\ At("AddPackage", "deps")
  /\ IF top.todo = {} THEN ReturnNil
     ELSE \E d \in top.todo :
            Call(Frame("AddPackage", "start", d[1], d[2], {}),
                 [top EXCEPT !.todo = {}])
  /\ UNCHANGED <<env, cacheVars, linkVars, solverVars, netVars>>

\* Solver.AddPackage, the loop over pkg.Deps (lines 69-76): one iteration
\* per step, in the order the map yields the names.
AddPackageDeps ==
  /\ At("AddPackage", "deps")
  /\ IF top.todo = {} THEN ReturnNil
     ELSE \E d \in top.todo :
            Call(Frame("AddPackage", "start", d[1], d[2], {}),
                 [top EXCEPT !.todo = @ \ {d}])
  /\ UNCHANGED <<env, cacheVars, linkVars, solverVars, netVars>>

\* ------------------------------------------------------------ installer
\* Installer.Install, registry path, lines 79-103 (os.Stat of the spec
\* found no file): a root whose version text names a cache entry is
\* installed from the cache, otherwise the solver runs.
InstallStart ==
  /\ At("Install", "start")
  /\ top.ver # File
  /\ LET pkg == [Name |-> top.name, Version |-> top.ver, Deps |-> {}]
         lm == LoadMetadata(pkg)
     IN IF Exists(pkg)
          THEN IF lm.err THEN Fail
               ELSE Goto(Frame("installCachedDep", "start",
                               lm.pkg.Name, lm.pkg.Version, lm.pkg.Deps))
          ELSE Call(Frame("AddPackage", "start", top.name, top.ver, {}),
                    [top EXCEPT !.pc = "solved"])
  /\ UNCHANGED <<env, cacheVars, linkVars, solverVars, netVars>>

NeedsResolve(version) ==
  version # Latest /\ version.op \in {"caret"}

\* an Install without the check of the installed map
InstallSolved_NoGuard ==
  /\ At("Install", "solved")
  /\ LET needs == NeedsResolve(top.ver)
         rv == ResolveVersion(top.name, top.ver)
         version == IF needs THEN rv.version ELSE top.ver
     IN IF HasConflicts THEN ExitConflict /\ UNCHANGED netVars
        ELSE /\ netCalls' = netCalls + (IF needs THEN 1 ELSE 0)
             /\ requests' = IF needs THEN requests \cup {DocumentRequest(npmRegistry)}
                            ELSE requests
             /\ mapped' = IF needs /\ ~rv.err
                            THEN mapped \cup {<<top.name, top.ver, rv.version>>}
                          ELSE mapped
             /\ IF needs /\ rv.err THEN Fail
                ELSE Goto([top EXCEPT !.pc = "fetch", !.ver = version])
  /\ UNCHANGED <<env, cacheVars, linkVars, solverVars>>

\* Installer.Install, lines 110-143: conflict exit, resolution of a range
\* text that starts with ~, ^ or >, and the installed-map guard.
InstallSolved ==
  /\ At("Install", "solved")
  /\ LET needs == NeedsResolve(top.ver)
         rv == ResolveVersion(top.name, top.ver)
         version == IF needs THEN rv.version ELSE top.ver
     IN IF HasConflicts THEN ExitConflict /\ UNCHANGED netVars
        ELSE /\ netCalls' = netCalls + (IF needs THEN 1 ELSE 0)
             /\ requests' = IF needs THEN requests \cup {DocumentRequest(npmRegistry)}
                            ELSE requests
             /\ mapped' = IF needs /\ ~rv.err
                            THEN mapped \cup {<<top.name, top.ver, rv.version>>}
                          ELSE mapped
             /\ IF needs /\ rv.err THEN Fail
                ELSE IF installed[top.name] # None THEN ReturnNil
                ELSE Goto([top EXCEPT !.pc = "fetch", !.ver = version])
  /\ UNCHANGED <<env, cacheVars, linkVars, solverVars>>

\* an unsigned archive passes when a key is configured
VerifyFails_Unsigned(v) == v # "verified"

\* lines 161-163: verifyTarball returns a non-nil error
VerifyFails(v) == v \in {"bad", "error"}

\* Installer.Install, lines 145-175: fetch the tarball, verify it when a
\* public key is configured, then Cache.Store.
InstallFetchStore ==
  /\ At("Install", "fetch")
  /\ LET f == FetchPackageTarball(top.name, top.ver)
     IN /\ netCalls' = netCalls + 1
        /\ requests' = requests \cup FetchRequests(npmRegistry, f)
        /\ mapped' = mapped
        /\ IF f.err THEN Fail /\ UNCHANGED cacheVars
           ELSE IF pubKey # 0 /\ VerifyFails(verifyTarball(f.tarball, pubKey))
             THEN Fail /\ UNCHANGED cacheVars
           ELSE /\ cacheEntries' = StoreEntries(cacheEntries, cacheMeta, f.pkg)
                /\ cacheMeta' = StoreMeta(cacheEntries, cacheMeta, f.pkg, f.tarball)
                /\ cacheFiles' = StoreFiles(cacheEntries, cacheMeta, cacheFiles, outside,
                                            f.pkg, f.tarball)
                /\ outside' = StoreOutside(cacheEntries, cacheMeta, cacheFiles, outside,
                                           f.pkg, f.tarball)
                /\ storeOps' = IF StoreWrites(cacheEntries, cacheMeta, f.pkg)
                                 THEN storeOps \cup {<<f.pkg.Name, f.pkg.Version.v>>}
                                 ELSE storeOps
                /\ IF StoreErr(cacheEntries, cacheMeta, f.pkg, f.tarball) THEN Fail
                   ELSE Goto(Frame("Install", "link",
                                   f.pkg.Name, f.pkg.Version, f.pkg.Deps))
  /\ UNCHANGED <<env, linkVars, solverVars>>

\* Cache.Link followed by the record in the installed map.
LinkAndRecord(pkg) ==
  /\ links' = [links EXCEPT ![pkg.Name] = LinkResult(@, pkg)]
  /\ linkOps' = IF LinkNoop(links[pkg.Name], pkg) THEN linkOps
                ELSE linkOps \cup {pkg.Name}
  /\ installed' = [installed EXCEPT ![pkg.Name] = pkg.Version]

\* Installer.Install, lines 177-199.
InstallLink ==
  /\ At("Install", "link")
  /\ LET pkg == [Name |-> top.name, Version |-> top.ver, Deps |-> top.todo]
     IN IF LinkErr(links[pkg.Name], pkg) THEN Fail /\ UNCHANGED linkVars
        ELSE LinkAndRecord(pkg) /\ Goto([top EXCEPT !.pc = "deps"])
  /\ UNCHANGED <<env, cacheVars, solverVars, netVars>>

\* Installer.Install, lines 201-207: the loop over pkg.Deps.
InstallDeps ==
  /\ At("Install", "deps")
  /\ IF top.todo = {} THEN ReturnNil
     ELSE \E d \in top.todo :
            Call(Frame("installDependency", "start", d[1], d[2], {}),
                 [top EXCEPT !.todo = @ \ {d}])
  /\ UNCHANGED <<env, cacheVars, linkVars, solverVars, netVars>>

\* Installer.installDependency, lines 397-452.
installDependency ==
  /\ At("installDependency", "start")
  /\ LET depName == top.name
         depVersion == top.ver
         cachedDep == [EmptyPackage EXCEPT !.Name = depName]
         scan == IF HasCachedVersion(depName)
                   THEN ScanCached(cachedDep, GetCachedVersions(depName), 1, depVersion)
                   ELSE [hit |-> FALSE, dep |-> cachedDep]
         rv == ResolveVersion(depName, depVersion)
         resolved == [scan.dep EXCEPT !.Version = rv.version]
         lm == LoadMetadata(resolved)
     IN IF installed[depName] # None /\ satisfiesVersion(installed[depName], depVersion)
          THEN /\ ReturnNil
               /\ mapped' = mapped \cup {<<depName, depVersion, installed[depName]>>}
               /\ UNCHANGED <<netCalls, requests>>
        ELSE IF scan.hit
          THEN /\ Goto(Frame("installCachedDep", "start",
                             scan.dep.Name, scan.dep.Version, scan.dep.Deps))
               /\ mapped' = mapped \cup {<<depName, depVersion, scan.dep.Version>>}
               /\ UNCHANGED <<netCalls, requests>>
        ELSE /\ netCalls' = netCalls + 1
             /\ requests' = requests \cup {DocumentRequest(npmRegistry)}
             /\ mapped' = IF rv.err THEN mapped
                          ELSE mapped \cup {<<depName, depVersion, rv.version>>}
             /\ IF rv.err THEN Fail
                ELSE IF Exists(resolved) /\ ~lm.err
                  THEN Goto(Frame("installCachedDep", "start",
                                  lm.pkg.Name, lm.pkg.Version, lm.pkg.Deps))
                ELSE Goto(Frame("Install", "start", depName, rv.version, {}))
  /\ UNCHANGED <<env, cacheVars, linkVars, solverVars>>

\* an installCachedDep without the check of the installed map
installCachedDep_NoGuard ==
  /\ At("installCachedDep", "start")
  /\ LET pkg == [Name |-> top.name, Version |-> top.ver, Deps |-> top.todo]
     IN IF LinkErr(links[pkg.Name], pkg) THEN Fail /\ UNCHANGED linkVars
        ELSE LinkAndRecord(pkg) /\ Goto([top EXCEPT !.pc = "deps"])
  /\ UNCHANGED <<env, cacheVars, solverVars, netVars>>

\* Installer.installCachedDep, lines 454-493.
installCachedDep ==
  /\ At("installCachedDep", "start")
  /\ LET pkg == [Name |-> top.name, Version |-> top.ver, Deps |-> top.todo]
     IN IF installed[pkg.Name] # None THEN ReturnNil /\ UNCHANGED linkVars
        ELSE IF LinkErr(links[pkg.Name], pkg) THEN Fail /\ UNCHANGED linkVars
        ELSE LinkAndRecord(pkg) /\ Goto([top EXCEPT !.pc = "deps"])
  /\ UNCHANGED <<env, cacheVars, solverVars, netVars>>

\* Installer.installCachedDep, lines 495-501: the loop over pkg.Deps.
installCachedDepDeps ==
  /\ At("installCachedDep", "deps")
  /\ IF top.todo = {} THEN ReturnNil
     ELSE \E d \in top.todo :
            Call(Frame("installDependency", "start", d[1], d[2], {}),
                 [top EXCEPT !.todo = @ \ {d}])
  /\ UNCHANGED <<env, cacheVars, linkVars, solverVars, netVars>>

InstallStep ==
  \/ InstallStart
  \/ AddPackage
  \/ AddPackageDeps
  \/ InstallSolved
  \/ InstallFetchStore
  \/ InstallLink
  \/ InstallDeps
  \/ installDependency
  \/ installCachedDep
  \/ installCachedDepDeps

Next == InstallStep

Spec == Init /\ [][Next]_vars

\* ------------------------------------------------------------ two runs
Result ==
  [outcome |-> outcome, links |-> links, conflicts |-> conflicts,
   entries |-> cacheEntries]

\* The install command is run a second time on the same inputs: the same
\* registry snapshot and root spec, the cache and the project directory as
\* they were before the first run.  The process state is new (NewInstaller).
Again ==
  /\ run = 1
  /\ outcome \in {"ok", "conflict"}
  /\ first' = Result
  /\ run' = 2
  /\ cacheEntries' = cache0
  /\ cacheMeta' = SidecarsOf(registry, cache0)
  /\ cacheFiles' = FilesOf(cache0)
  /\ outside' = "absent"
  /\ links' = links0
  /\ NewInstaller(rootSpec)
  /\ UNCHANGED <<inputVars, lastOp, proc, toolVars>>

\* a registry in which a depends on the latest b and nothing else
CacheRegistries ==
  {r \in Registries : r[<<"c", 1>>] = {} /\ r[<<"a", 1>>] = {<<"b", Latest>>}}

\* install with or without --pubkey, of archives that are unsigned, signed
\* with key 1, signed with key 2, or broken
SignedFiles ==
  {OkArchive, signPackage(OkArchive, 1).file, signPackage(OkArchive, 2).file, BadTar}

InitSigned ==
  /\ InitInstall
  /\ registry \in CacheRegistries
  /\ links = NoLinks
  /\ pubKey \in {0, 1}
  /\ tarballs \in {[p \in Packages |-> IF p[1] = "a" THEN ta
                                       ELSE IF p = <<"b", MaxVer>> THEN tb
                                       ELSE OkArchive] :
                     ta \in SignedFiles, tb \in SignedFiles}

SpecSigned == InitSigned /\ [][Next]_vars

NextPair == InstallStep \/ Again

SpecPair == Init /\ [][NextPair]_vars

\* The install command is run again after a successful run, on the cache and
\* the project directory the first run left behind.
Rerun ==
  /\ run = 1
  /\ outcome = "ok"
  /\ first' = Result
  /\ run' = 2
  /\ NewInstaller(rootSpec)
  /\ UNCHANGED <<inputVars, lastOp, proc, toolVars,
                 cacheEntries, cacheMeta, cacheFiles, outside, links>>

NextRerun == InstallStep \/ Rerun

SpecRerun == Init /\ [][NextRerun]_vars

\* ------------------------------------------------------------ cache alone
\* No install is running: the cache and the project are as earlier
\* invocations left them.
InitNoInstall ==
  /\ registry \in CacheRegistries
  /\ tagDocs = TRUE
  /\ tarballs = [p \in Packages |-> OkArchive]
  /\ rootSpec = [name |-> "a", ver |-> Latest]
  /\ cacheEntries \in SUBSET Packages
  /\ cacheMeta = SidecarsOf(registry, cacheEntries)
  /\ links \in InitialLinks
  /\ installed = [n \in Names |-> None]
  /\ nodes = {}
  /\ conflicts = <<>>
  /\ stack = <<>>
  /\ outcome = "idle"
  /\ netCalls = 0
  /\ mapped = {}
  /\ requests = {}
  /\ storeOps = {}
  /\ linkOps = {}
  /\ run = 1
  /\ cache0 = cacheEntries
  /\ links0 = links
  /\ first = NoResult
  /\ lastOp = NoOp
  /\ cacheFiles = FilesOf(cacheEntries)
  /\ outside = "absent"
  /\ proc = [q \in Procs |-> ProcIdle]
  /\ pubKey = 0
  /\ sigFile = <<>>
  /\ verdict = [op |-> "none", key |-> 0, res |-> "none", input |-> NoArchive]

\* the same, with the registry client of the default URL and no token
InitIdle ==
  /\ InitNoInstall
  /\ pkgData = NoDocument
  /\ resolving = NotResolving
  /\ npmRegistry = NewNPMRegistry(DefaultURL, "")
  /\ cli = CliRun

\* Store and Link called directly, in any sequence, on the versions of one
\* package.
CachePackages == {p \in Packages : p[1] = "b"}

InitCache ==
  /\ InitIdle
  /\ cacheEntries \subseteq CachePackages
  /\ pkgFile = NoArchive

Store ==
  /\ outcome = "idle"
  /\ \E p \in CachePackages, archive \in Archives :
       LET pkg == [Name |-> p[1], Version |-> Ver(p[2]), Deps |-> registry[p]]
       IN /\ cacheEntries' = StoreEntries(cacheEntries, cacheMeta, pkg)
          /\ cacheMeta' = StoreMeta(cacheEntries, cacheMeta, pkg, archive)
          /\ cacheFiles' = StoreFiles(cacheEntries, cacheMeta, cacheFiles, outside,
                                      pkg, archive)
          /\ outside' = StoreOutside(cacheEntries, cacheMeta, cacheFiles, outside,
                                     pkg, archive)
          /\ lastOp' = [op |-> "Store", name |-> pkg.Name, ver |-> pkg.Version,
                        archive |-> archive,
                        wrote |-> StoreWrites(cacheEntries, cacheMeta, pkg),
                        err |-> StoreErr(cacheEntries, cacheMeta, pkg, archive),
                        tick |-> 1 - lastOp.tick]
  /\ UNCHANGED <<inputVars, run, first, proc, toolVars, links, linkOps,
                 installed, solverVars, stack, outcome, netVars, storeOps>>

Link ==
  /\ outcome = "idle"
  /\ \E p \in CachePackages :
       LET pkg == [Name |-> p[1], Version |-> Ver(p[2]), Deps |-> registry[p]]
       IN /\ links' = [links EXCEPT ![pkg.Name] = LinkResult(@, pkg)]
          /\ lastOp' = [op |-> "Link", name |-> pkg.Name, ver |-> pkg.Version,
                        archive |-> NoArchive,
                        wrote |-> ~LinkNoop(links[pkg.Name], pkg)
                                  /\ ~LinkErr(links[pkg.Name], pkg),
                        err |-> LinkErr(links[pkg.Name], pkg),
                        tick |-> 1 - lastOp.tick]
  /\ UNCHANGED <<inputVars, run, first, proc, toolVars, cacheVars,
                 linkOps, installed, solverVars, stack, outcome, netVars>>

NextCache == Store \/ Link

SpecCache == InitCache /\ [][NextCache]_vars

\* ------------------------------------------------------------ sign tool
\* The commands sign and verify on a package file, and changes of single
\* bits of the file outside a signature.sig member.
MaxSigs == 2

InputFiles ==
  {OkArchive, Archive("other", Plain, FALSE), BadGzip, BadTar,
   Archive("go", Plain \o <<Entry("signature.sig", "reg", <<1>>)>>, FALSE)}

InitTool ==
  /\ InitIdle
  /\ cacheEntries = {}
  /\ links = NoLinks
  /\ pkgFile \in InputFiles

toolFrame == <<inputVars, run, first, lastOp, proc, cacheVars, linkVars,
               solverVars, stack, outcome, netVars>>

SignCmd ==
  /\ Len(SelectSeq(pkgFile.entries, IsSig)) < MaxSigs
  /\ \E key \in Keys :
       /\ pkgFile' = signPackage(pkgFile, key).file
       /\ verdict' = [op |-> "sign", key |-> key, input |-> pkgFile,
                      res |-> IF signPackage(pkgFile, key).err THEN "error" ELSE "ok"]
  /\ UNCHANGED <<sigFile, toolFrame>>

VerifyCmd ==
  /\ \E pub \in Keys :
       verdict' = [op |-> "verify", key |-> pub, input |-> pkgFile,
                   res |-> verifyTarball(pkgFile, pub)]
  /\ UNCHANGED <<pkgFile, sigFile, toolFrame>>

SignDetachedCmd ==
  /\ \E key \in Keys :
       /\ sigFile' = signPackageDetached(pkgFile, key)
       /\ verdict' = [op |-> "signDetached", key |-> key, input |-> pkgFile,
                      res |-> "ok"]
  /\ UNCHANGED <<pkgFile, toolFrame>>

VerifyDetachedCmd ==
  /\ \E pub \in Keys :
       verdict' = [op |-> "verifyDetached", key |-> pub, input |-> pkgFile,
                   res |-> verifyPackageDetached(pkgFile, sigFile, pub)]
  /\ UNCHANGED <<pkgFile, sigFile, toolFrame>>

\* the files that differ from file in one bit outside signature.sig: in the
\* content of a regular member, or in the gzip and tar framing (a header
\* field the readers skip; or one they need, which leaves no gzip stream)
Flips(file) ==
  {[file EXCEPT !.entries[i].body = <<3 - @[1]>>] :
     i \in {j \in 1..Len(file.entries) :
              file.entries[j].type = "reg" /\ ~IsSig(file.entries[j])
              /\ Len(file.entries[j].body) = 1}}
  \cup (IF file.gz = "bad" THEN {}
        ELSE {[file EXCEPT !.gz = IF @ = "go" THEN "other" ELSE "go"],
              [file EXCEPT !.gz = "bad"]})

FlipBit ==
  /\ \E f \in Flips(pkgFile) :
       /\ pkgFile' = f
       /\ verdict' = [op |-> "flip", key |-> 0, res |-> "none", input |-> pkgFile]
  /\ UNCHANGED <<sigFile, toolFrame>>

NextTool ==
  \/ SignCmd
  \/ VerifyCmd
  \/ SignDetachedCmd
  \/ VerifyDetachedCmd
  \/ FlipBit

SpecTool == InitTool /\ [][NextTool]_vars

\* ------------------------------------------------------------ processes
\* Several processes call Store, Exists, LoadMetadata and Link on one cache
\* root.  Exists, LoadMetadata and Link are one step each; Store is one step
\* per system call that touches the cache root.  Every process stores the
\* archive the registry serves for the package.
InitProcs ==
  /\ InitCache
  /\ links = NoLinks

\* every member of the archive is in the entry directory with its full
\* content and the sidecar is written
Complete(entries, meta, files, p) ==
  /\ p \in entries
  /\ p \in DOMAIN meta
  /\ \A i \in 1..Len(tarballs[p].entries) :
       /\ TargetPath(tarballs[p].entries[i].name).inside
       /\ files[p][TargetPath(tarballs[p].entries[i].name).file] = "full"

PkgOf(p) == [Name |-> p[1], Version |-> Ver(p[2]), Deps |-> registry[p]]

ProcPkg(q) == <<proc[q].name, proc[q].ver.v>>

Returned(q, op, p, ok, complete) ==
  proc' = [proc EXCEPT ![q] =
             [op |-> op, pc |-> "idle", name |-> p[1], ver |-> Ver(p[2]), i |-> 0,
              ok |-> ok, complete |-> complete]]

StoreAt(q, pc) == outcome = "idle" /\ proc[q].op = "Store" /\ proc[q].pc = pc

procFrame == <<inputVars, run, first, lastOp, toolVars, linkOps, installed,
               solverVars, stack, outcome, netVars, storeOps>>

\* Store, lines 56-57 and 120-127: os.Stat of the entry directory
StoreStat(q) ==
  /\ outcome = "idle"
  /\ proc[q].pc = "idle"
  /\ \E p \in CachePackages :
       IF StoreWrites(cacheEntries, cacheMeta, PkgOf(p))
         THEN proc' = [proc EXCEPT ![q] =
                         [op |-> "Store", pc |-> "mkdir", name |-> p[1],
                          ver |-> Ver(p[2]), i |-> 0, ok |-> FALSE, complete |-> FALSE]]
         ELSE Returned(q, "Store", p, TRUE,
                       Complete(cacheEntries, cacheMeta, cacheFiles, p))
  /\ UNCHANGED <<procFrame, cacheEntries, cacheMeta, cacheFiles, outside, links>>

\* Store, lines 63-73: os.MkdirAll of the entry directory, then the gzip
\* reader is opened on the archive
StoreMkdir(q) ==
  /\ StoreAt(q, "mkdir")
  /\ cacheEntries' = cacheEntries \cup {ProcPkg(q)}
  /\ IF GzipErr(tarballs[ProcPkg(q)])
       THEN Returned(q, "Store", ProcPkg(q), FALSE, FALSE)
       ELSE proc' = [proc EXCEPT ![q].pc = "next", ![q].i = 1]
  /\ UNCHANGED <<procFrame, cacheMeta, cacheFiles, outside, links>>

\* Store, lines 75-98: the next member is read; a directory is made, a
\* regular file is created (and truncated) by os.Create
StoreNext(q) ==
  /\ StoreAt(q, "next")
  /\ LET p == ProcPkg(q)
         archive == tarballs[p]
         i == proc[q].i
         e == archive.entries[i]
         t == TargetPath(e.name)
         to == IF e.type = "dir" THEN "full" ELSE "partial"
     IN IF i > Len(archive.entries)
          THEN /\ IF archive.cut THEN Returned(q, "Store", p, FALSE, FALSE)
                  ELSE proc' = [proc EXCEPT ![q].pc = "sidecar"]
               /\ UNCHANGED <<cacheFiles, outside>>
        ELSE IF ~Extracted(e.type)
          THEN /\ proc' = [proc EXCEPT ![q].i = i + 1]
               /\ UNCHANGED <<cacheFiles, outside>>
        ELSE /\ proc' = [proc EXCEPT ![q].i = IF e.type = "dir" THEN i + 1 ELSE i,
                                      ![q].pc = IF e.type = "dir" THEN "next" ELSE "copy"]
             /\ IF t.inside
                  THEN /\ cacheFiles' = [cacheFiles EXCEPT ![p][t.file] = to]
                       /\ UNCHANGED outside
                  ELSE /\ outside' = to
                       /\ UNCHANGED cacheFiles
  /\ UNCHANGED <<procFrame, cacheEntries, cacheMeta, links>>

\* Store, lines 100-107: io.Copy of the member's content, Close, Chmod
StoreCopy(q) ==
  /\ StoreAt(q, "copy")
  /\ LET p == ProcPkg(q)
         e == tarballs[p].entries[proc[q].i]
         st == ExtractEntry([files |-> cacheFiles[p], outside |-> outside], e)
     IN /\ cacheFiles' = [cacheFiles EXCEPT ![p] = st.files]
        /\ outside' = st.outside
  /\ proc' = [proc EXCEPT ![q].pc = "next", ![q].i = @ + 1]
  /\ UNCHANGED <<procFrame, cacheEntries, cacheMeta, links>>

\* Store, lines 111-127: the sidecar is written and the path returned
StoreSidecar(q) ==
  /\ StoreAt(q, "sidecar")
  /\ LET p == ProcPkg(q)
         meta == [f \in DOMAIN cacheMeta \cup {p} |->
                    IF f = p THEN PkgOf(p) ELSE cacheMeta[f]]
     IN /\ cacheMeta' = meta
        /\ Returned(q, "Store", p, TRUE, Complete(cacheEntries, meta, cacheFiles, p))
  /\ UNCHANGED <<procFrame, cacheEntries, cacheFiles, outside, links>>

ProcExists(q) ==
  /\ outcome = "idle"
  /\ proc[q].pc = "idle"
  /\ \E p \in CachePackages :
       Returned(q, "Exists", p, Exists(PkgOf(p)),
                Complete(cacheEntries, cacheMeta, cacheFiles, p))
  /\ UNCHANGED <<procFrame, cacheEntries, cacheMeta, cacheFiles, outside, links>>

ProcLoadMetadata(q) ==
  /\ outcome = "idle"
  /\ proc[q].pc = "idle"
  /\ \E p \in CachePackages :
       Returned(q, "LoadMetadata", p, ~LoadMetadata(PkgOf(p)).err,
                Complete(cacheEntries, cacheMeta, cacheFiles, p))
  /\ UNCHANGED <<procFrame, cacheEntries, cacheMeta, cacheFiles, outside, links>>

\* a process links the package that its last call found in the cache, as
\* the installer does after Store (installer.go:168-185) and after Exists
\* and LoadMetadata (installer.go:409-415)
ProcLink(q) ==
  /\ outcome = "idle"
  /\ proc[q].pc = "idle"
  /\ proc[q].op \in {"Store", "Exists", "LoadMetadata"}
  /\ proc[q].ok
  /\ LET p == ProcPkg(q)
     IN /\ links' = [links EXCEPT ![p[1]] = LinkResult(@, PkgOf(p))]
        /\ Returned(q, "Link", p, ~LinkErr(links[p[1]], PkgOf(p)),
                    Complete(cacheEntries, cacheMeta, cacheFiles, p))
  /\ UNCHANGED <<procFrame, cacheEntries, cacheMeta, cacheFiles, outside>>

NextProcs ==
  \E q \in Procs :
    \/ StoreStat(q)
    \/ StoreMkdir(q)
    \/ StoreNext(q)
    \/ StoreCopy(q)
    \/ StoreSidecar(q)
    \/ ProcExists(q)
    \/ ProcLoadMetadata(q)
    \/ ProcLink(q)

SpecProcs == InitProcs /\ [][NextProcs]_vars

\* ------------------------------------------------------------ cycles
\* Registries in which the packages depend on each other in any direction,
\* a -> b -> a and a -> b -> c -> a included; every version of b declares
\* the same dependencies.
CyclicRegistries ==
  {[p \in Packages |->
      IF p[1] = "a" THEN da ELSE IF p[1] = "b" THEN db ELSE dc] :
    da \in {x \cup y : x \in DepOptions("b"), y \in {{}, {<<"c", Latest>>}}},
    db \in {x \cup y : x \in {{}, {<<"a", Latest>>}}, y \in {{}, {<<"c", Latest>>}}},
    dc \in {x \cup y : x \in {{}, {<<"a", Ver(1)>>}}, y \in DepOptions("b")}}

InitCycles ==
  /\ registry \in CyclicRegistries
  /\ rootSpec \in RootSpecs
  /\ cacheEntries \in {{}, {<<"b", 1>>}}
  /\ links = NoLinks
  /\ InitInvocation
  /\ tarballs = [p \in Packages |-> OkArchive]
  /\ pubKey = 0

\* the invocation is one sequential process: a step that can be taken is
\* taken
SpecCycles == InitCycles /\ [][Next]_vars /\ WF_vars(Next)

\* Cyclic registries in which a requires b and b requires the latest a, on a
\* cache that is empty, holds b 1.1.0, or holds every package.
InitLoops ==
  /\ registry \in {r \in CyclicRegistries :
                     /\ \E d \in r[<<"a", 1>>] : d[1] = "b"
                     /\ <<"a", Latest>> \in r[<<"b", 1>>]}
  /\ rootSpec \in {[name |-> "a", ver |-> r] : r \in {Ver(1), Latest}}
  /\ cacheEntries \in {{}, {<<"b", 1>>}, Packages}
  /\ links = NoLinks
  /\ InitInvocation
  /\ tarballs = [p \in Packages |-> OkArchive]
  /\ pubKey = 0

SpecLoops == InitLoops /\ [][Next]_vars /\ WF_vars(Next)

\* ------------------------------------------------------------ command line
\* ipm install a, with or without the flags --registry and --token ("" for
\* a flag that is not given), from the start of main.
CliArgs ==
  {[pc |-> "main", registry |-> u, token |-> t,
    registryURL |-> "", registryToken |-> ""] :
     u \in {"", "https://npm.example"}, t \in {"", "secret"}}

InitCli ==
  /\ InitNoInstall
  /\ pkgFile = NoArchive
  /\ pkgData = NoDocument
  /\ resolving = NotResolving
  /\ npmRegistry = NewNPMRegistry("", "")
  /\ cli \in CliArgs

\* NewRootCmd: StringVar sets each flag variable to its default, and the
\* registry client is constructed from the values the variables then hold
NewRootCmd ==
  /\ cli.pc = "main"
  /\ cli' = [cli EXCEPT !.pc = "built", !.registryURL = DefaultURL,
                        !.registryToken = ""]
  /\ npmRegistry' = NewNPMRegistry(cli'.registryURL, cli'.registryToken)
  /\ UNCHANGED <<snapshot, pkgData, resolving, run, first, lastOp, proc, toolVars,
                 cacheVars, linkVars, solverVars, stack, outcome, netVars>>

\* rootCmd.Execute: the flags of the command line are parsed into the flag
\* variables, then RunE of the install command calls inst.Install(reg, ...)
Execute ==
  /\ cli.pc = "built"
  /\ cli' = [cli EXCEPT
               !.pc = "run",
               !.registryURL = IF cli.registry # "" THEN cli.registry ELSE @,
               !.registryToken = IF cli.token # "" THEN cli.token ELSE @]
  /\ stack' = <<Frame("Install", "start", rootSpec.name, rootSpec.ver, {})>>
  /\ outcome' = "running"
  /\ UNCHANGED <<snapshot, pkgData, resolving, npmRegistry, run, first, lastOp,
                 proc, toolVars, cacheVars, linkVars, solverVars, netVars>>

NextCli == NewRootCmd \/ Execute \/ InstallStep

SpecCli == InitCli /\ [][NextCli]_vars

\* ------------------------------------------------------------ root ranges
\* install a@<range> for range texts of several forms: an exact version, a
\* caret range and an upper bound
RangeSpecs ==
  {[name |-> "a", ver |-> r] : r \in {Ver(1), Caret(1), Le(1), Le(MaxVer)}}

InitRanges ==
  /\ registry \in Registries
  /\ rootSpec \in RangeSpecs
  /\ cacheEntries \in SUBSET {<<"b", 1>>, <<"c", 1>>}
  /\ links = NoLinks
  /\ tarballs = [p \in Packages |-> OkArchive]
  /\ pubKey = 0
  /\ InitInvocation

SpecRanges == InitRanges /\ [][Next]_vars

\* ------------------------------------------------------------ local file
\* The install spec is the path of a file in the working directory: rootSpec
\* is [name |-> path, ver |-> File] and pkgFile is the content of the file.
\* The member package/package.json of an archive has the body
\* <<"json", name, version, dependencies>>.
PackageJson(pkg) ==
  Entry("package/package.json", "reg", <<"json", pkg.Name, pkg.Version, pkg.Deps>>)

\* strings.HasSuffix(hdr.Name, "package.json")
IsPackageJson(e) == e.name = "package/package.json"

\* extractPackageMetadata, lines 358-395: the first member whose name ends
\* in package.json is decoded; a break in the stream before it, a body that
\* is not JSON and an archive without such a member are errors.
extractPackageMetadata(tarballData) ==
  LET found == SelectSeq(tarballData.entries, IsPackageJson)
  IN IF GzipErr(tarballData) \/ found = <<>> \/ Len(found[1].body) # 4
       THEN [err |-> TRUE, pkg |-> EmptyPackage]
       ELSE [err |-> FALSE,
             pkg |-> [Name |-> found[1].body[2], Version |-> found[1].body[3],
                      Deps |-> found[1].body[4]]]

LocalDeps ==
  {{}, {<<"b", Latest>>}, {<<"b", Ver(1)>>, <<"c", Latest>>}, {<<"c", Caret(1)>>}}

LocalArchive(deps) ==
  Archive("go",
          <<PackageJson([Name |-> "a", Version |-> Ver(1), Deps |-> deps]),
            Entry("package/index.js", "reg", <<1>>)>>,
          FALSE)

\* The local files: a package archive, unsigned or signed with key 1 or key
\* 2; one that breaks off after package.json; one whose package.json is not
\* JSON; one without package.json; and a file that is not a gzip stream.
LocalFiles ==
  UNION {{LocalArchive(d), signPackage(LocalArchive(d), 1).file,
          signPackage(LocalArchive(d), 2).file,
          [LocalArchive(d) EXCEPT !.entries = SubSeq(@, 1, 1), !.cut = TRUE]} :
         d \in LocalDeps}
  \cup {Archive("go", <<Entry("package/package.json", "reg", <<1>>)>>, FALSE),
        OkArchive, BadGzip}

LocalPath == "a-1.1.0.tgz"

InitLocal ==
  /\ registry \in {r \in Registries : r[<<"a", 1>>] = {}}
  /\ rootSpec = [name |-> LocalPath, ver |-> File]
  /\ cacheEntries \in SUBSET {<<"b", 1>>, <<"c", 1>>}
  /\ links \in {NoLinks, [NoLinks EXCEPT !["a"] = File]}
  /\ tarballs = [p \in Packages |-> OkArchive]
  /\ pubKey \in {0, 1}
  /\ \E file \in LocalFiles : InitInvocationOf(file)

\* a local install that does not look at the signature
InstallLocal_NoVerify ==
  /\ At("Install", "start")
  /\ top.ver = File
  /\ Goto([top EXCEPT !.pc = "extract"])
  /\ UNCHANGED <<env, cacheVars, linkVars, solverVars, netVars>>

\* Installer.Install, lines 45-66: os.Stat finds the file, the file is read
\* and, when a key is configured, verified.
InstallLocal ==
  /\ At("Install", "start")
  /\ top.ver = File
  /\ IF pubKey # 0 /\ VerifyFails(verifyTarball(pkgFile, pubKey)) THEN Fail
     ELSE Goto([top EXCEPT !.pc = "extract"])
  /\ UNCHANGED <<env, cacheVars, linkVars, solverVars, netVars>>

\* Installer.Install, lines 68-75.
InstallLocalExtract ==
  /\ At("Install", "extract")
  /\ LET x == extractPackageMetadata(pkgFile)
     IN IF x.err THEN Fail
        ELSE Goto(Frame("installLocalPackage", "start",
                        x.pkg.Name, x.pkg.Version, x.pkg.Deps))
  /\ UNCHANGED <<env, cacheVars, linkVars, solverVars, netVars>>

\* Installer.installLocalPackage, lines 211-230: the installed-map guard and
\* Cache.Store of the file's bytes.
installLocalPackage ==
  /\ At("installLocalPackage", "start")
  /\ LET pkg == [Name |-> top.name, Version |-> top.ver, Deps |-> top.todo]
     IN IF installed[pkg.Name] # None THEN ReturnNil /\ UNCHANGED cacheVars
        ELSE /\ cacheEntries' = StoreEntries(cacheEntries, cacheMeta, pkg)
             /\ cacheMeta' = StoreMeta(cacheEntries, cacheMeta, pkg, pkgFile)
             /\ cacheFiles' = StoreFiles(cacheEntries, cacheMeta, cacheFiles, outside,
                                         pkg, pkgFile)
             /\ outside' = StoreOutside(cacheEntries, cacheMeta, cacheFiles, outside,
                                        pkg, pkgFile)
             /\ storeOps' = IF StoreWrites(cacheEntries, cacheMeta, pkg)
                              THEN storeOps \cup {<<pkg.Name, pkg.Version.v>>}
                              ELSE storeOps
             /\ IF StoreErr(cacheEntries, cacheMeta, pkg, pkgFile) THEN Fail
                ELSE Goto([top EXCEPT !.pc = "link"])
  /\ UNCHANGED <<env, linkVars, solverVars, netVars>>

\* Installer.installLocalPackage, lines 232-254.
installLocalPackageLink ==
  /\ At("installLocalPackage", "link")
  /\ LET pkg == [Name |-> top.name, Version |-> top.ver, Deps |-> top.todo]
     IN IF LinkErr(links[pkg.Name], pkg) THEN Fail /\ UNCHANGED linkVars
        ELSE LinkAndRecord(pkg) /\ Goto([top EXCEPT !.pc = "deps"])
  /\ UNCHANGED <<env, cacheVars, solverVars, netVars>>

\* Installer.installLocalPackage, lines 256-262: the loop over pkg.Deps.
installLocalPackageDeps ==
  /\ At("installLocalPackage", "deps")
  /\ IF top.todo = {} THEN ReturnNil
     ELSE \E d \in top.todo :
            Call(Frame("installDependency", "start", d[1], d[2], {}),
                 [top EXCEPT !.todo = @ \ {d}])
  /\ UNCHANGED <<env, cacheVars, linkVars, solverVars, netVars>>

LocalStep ==
  \/ InstallLocal
  \/ InstallLocalExtract
  \/ installLocalPackage
  \/ installLocalPackageLink
  \/ installLocalPackageDeps

NextLocal == InstallStep \/ LocalStep

SpecLocal == InitLocal /\ [][NextLocal]_vars

\* ------------------------------------------------------------ resolve alone
\* ResolveVersion called NumCalls times on one package document with one
\* range text.  The loop over the keys of versions is one step per key, in
\* the order the map yields them.
MaxKeys == 3

NumCalls == 2

VersionKeys ==
  {[op |-> f, v |-> k] : f \in {"eq", "veq", "build"}, k \in 1..MaxVer} \cup {Junk}

Documents ==
  {[Versions |-> vs, DistTags |-> t] :
     vs \in {x \in SUBSET VersionKeys : Cardinality(x) <= MaxKeys},
     t \in {None, Ver(1), [op |-> "veq", v |-> MaxVer]}}

RangeTexts ==
  {Ver(k) : k \in 1..MaxVer} \cup {Caret(k) : k \in 1..MaxVer} \cup {Latest, Junk}

InitResolve ==
  /\ InitNoInstall
  /\ cacheEntries = {}
  /\ links = NoLinks
  /\ pkgFile = NoArchive
  /\ npmRegistry = NewNPMRegistry(DefaultURL, "")
  /\ cli = CliRun
  /\ pkgData \in Documents
  /\ resolving \in {[NotResolving EXCEPT !.versionRange = r] : r \in RangeTexts}

resolveFrame == <<snapshot, pkgData, npmRegistry, cli, run, first, lastOp, proc,
                  toolVars, cacheVars, linkVars, solverVars, stack, outcome,
                  netCalls, mapped>>

Returns(result) ==
  [resolving EXCEPT !.pc = "idle", !.todo = {}, !.latest = None,
                    !.results = Append(@, result)]

\* ResolveVersion, lines 119-184: the request, the range text "latest", and
\* the range text that is no constraint
ResolveCall ==
  /\ resolving.pc = "idle"
  /\ resolving.versionRange # None
  /\ Len(resolving.results) < NumCalls
  /\ requests' = requests \cup {DocumentRequest(npmRegistry)}
  /\ resolving' =
       IF resolving.versionRange = Latest THEN Returns(ResolveLatest(pkgData))
       ELSE IF ~IsConstraint(resolving.versionRange) THEN Returns(NoVersion)
       ELSE [resolving EXCEPT !.pc = "loop", !.todo = pkgData.Versions]
  /\ UNCHANGED resolveFrame

\* lines 185-195
ResolveLoop ==
  /\ resolving.pc = "loop"
  /\ \E verStr \in resolving.todo :
       resolving' = [resolving EXCEPT
                       !.todo = @ \ {verStr},
                       !.latest = Keep(@, verStr, resolving.versionRange)]
  /\ UNCHANGED <<resolveFrame, requests>>

\* lines 197-210: latest.Original() is the key as the document spells it
ResolveReturn ==
  /\ resolving.pc = "loop"
  /\ resolving.todo = {}
  /\ resolving' = Returns(IF resolving.latest = None THEN NoVersion
                          ELSE [err |-> FALSE, version |-> resolving.latest])
  /\ UNCHANGED <<resolveFrame, requests>>

NextResolve == ResolveCall \/ ResolveLoop \/ ResolveReturn

SpecResolve == InitResolve /\ [][NextResolve]_vars

TypeOK ==
  /\ outcome \in {"running", "ok", "error", "conflict", "idle"}
  /\ cacheEntries \subseteq Packages
  /\ DOMAIN cacheMeta \subseteq Packages
  /\ \A n \in Names : installed[n] = None \/ IsVersion(installed[n])

\* ------------------------------------------------------------ requirements
\* The requirements reachable from the root: the root's resolved version and,
\* for every required package, the version each declared range resolves to.
RECURSIVE ReqClosure(_)
ReqClosure(S) ==
  LET ds == UNION {registry[p] : p \in S}
      T == S \cup {<<d[1], ResolveVersion(d[1], d[2]).version.v>> :
                     d \in {e \in ds : ~ResolveVersion(e[1], e[2]).err}}
  IN IF T = S THEN S ELSE ReqClosure(T)

RootRequirements ==
  LET rv == ResolveVersion(rootSpec.name, rootSpec.ver)
  IN IF rv.err THEN {} ELSE ReqClosure({<<rootSpec.name, rv.version.v>>})

RootConflicting ==
  \E p, q \in RootRequirements : p[1] = q[1] /\ p[2] # q[2]

\* The ranges declared on the way, and whether some name has declared ranges
\* that no single version satisfies.
RootRanges ==
  {<<rootSpec.name, rootSpec.ver>>} \cup UNION {registry[p] : p \in RootRequirements}

Matches(k, n, r) ==
  IF r = Latest THEN k = DistTagLatest(n) ELSE IsConstraint(r) /\ Check(r, k)

RootUnsatisfiable ==
  \E n \in Names :
    /\ \E d \in RootRanges : d[1] = n
    /\ ~\E k \in VersionsOf(n) :
          \A d \in RootRanges : d[1] = n => Matches(k, n, d[2])

\* The operation that the next step of the invocation performs returns an
\* error: a registry call, a cache operation or the signature check.
ScanFails(depName, depVersion) ==
  LET versions == GetCachedVersions(depName)
      cd(i) == [EmptyPackage EXCEPT !.Name = depName, !.Version = versions[i]]
  IN \E i \in 1..Len(versions) :
       /\ Exists(cd(i))
       /\ LoadMetadata(cd(i)).err
       /\ ~ScanCached([EmptyPackage EXCEPT !.Name = depName],
                      SubSeq(versions, 1, i - 1), 1, depVersion).hit

StepFails ==
  /\ outcome = "running"
  /\ LET pkg == [Name |-> top.name, Version |-> top.ver, Deps |-> top.todo]
         rv == ResolveVersion(top.name, top.ver)
         f == FetchPackageTarball(top.name, top.ver)
         scanned == ScanCached([EmptyPackage EXCEPT !.Name = top.name],
                               GetCachedVersions(top.name), 1, top.ver)
         found == [scanned.dep EXCEPT !.Version = rv.version]
     IN CASE At("AddPackage", "start") ->
               \/ rv.err
               \/ /\ <<top.name, rv.version>> \notin NodeKeys
                  /\ FetchPackageTarball(top.name, rv.version).err
          [] At("Install", "start") -> Exists(pkg) /\ LoadMetadata(pkg).err
          [] At("Install", "solved") ->
               ~HasConflicts /\ NeedsResolve(top.ver) /\ rv.err
          [] At("Install", "fetch") ->
               \/ f.err
               \/ pubKey # 0 /\ verifyTarball(f.tarball, pubKey) \in {"bad", "error"}
               \/ StoreErr(cacheEntries, cacheMeta, f.pkg, f.tarball)
          [] At("Install", "link") -> LinkErr(links[top.name], pkg)
          [] At("installCachedDep", "start") ->
               installed[top.name] = None /\ LinkErr(links[top.name], pkg)
          [] At("installDependency", "start") ->
               /\ ~(installed[top.name] # None
                     /\ satisfiesVersion(installed[top.name], top.ver))
               /\ \/ ScanFails(top.name, top.ver)
                  \/ ~scanned.hit /\ rv.err
                  \/ ~scanned.hit /\ Exists(found) /\ LoadMetadata(found).err
          [] OTHER -> FALSE

\* ------------------------------------------------------------ claims
\* C1: when the requirements reachable from the root need two different
\* versions of one package name, the install invocation never ends with
\* success, whatever the cache held before.
C1_NoSuccessOnConflict ==
  outcome = "ok" => ~(RootConflicting /\ RootUnsatisfiable)

C3_SameLinksInBothRuns ==
  (run = 2 /\ first.outcome = "ok" /\ outcome = "ok") => links = first.links

\* C4: two invocations on the same inputs that end in a conflict report the
\* same conflict list, record by record and in the same order.
C4_SameConflictsInBothRuns ==
  (run = 2 /\ first.outcome = "conflict" /\ outcome = "conflict")
    => conflicts = first.conflicts

\* C5: an invocation that ends because of dependency conflicts has stored
\* nothing in the cache and has created or replaced no symlink.
C5_NoPartialInstallOnConflict ==
  outcome = "conflict" => storeOps = {} /\ linkOps = {}

\* C6: after a successful invocation every node of the resolved graph has its
\* cache entry and the project symlink of its name points at that entry.
C6_GraphMaterialized ==
  outcome = "ok" =>
    \A n \in nodes : /\ <<n.Name, n.Version.v>> \in cacheEntries
                     /\ links[n.Name] = n.Version

\* C7: after a successful invocation every name recorded as installed has its
\* project symlink pointing at the cache entry of the recorded version, and
\* that entry exists in the cache.
C7_InstalledLinked ==
  outcome = "ok" =>
    \A n \in Names : installed[n] # None =>
      /\ links[n] = installed[n]
      /\ <<n, installed[n].v>> \in cacheEntries

C7_Witness ==
  /\ outcome = "ok"
  /\ installed["a"] # None
  /\ installed["b"] = Ver(MaxVer)
  /\ links0["b"] = Ver(1)
  /\ links["b"] = Ver(MaxVer)

\* C8: the second run after a successful install makes no registry call.
C8_RerunNoRegistryCall ==
  run = 2 => netCalls = 0

\* C9: the second run after a successful install writes no cache entry and
\* removes or recreates no symlink; cache and project stay as they were.
C9_RerunChangesNothing ==
  run = 2 => /\ storeOps = {}
             /\ linkOps = {}
             /\ links = first.links
             /\ cacheEntries = first.entries

\* C10: a Store of a package right after a Store of the same package with
\* the same archive writes nothing, leaves the cache as it is and returns
\* what the first call returned.
C10_StoreIdempotent ==
  [][(lastOp.op = "Store" /\ lastOp'.op = "Store"
      /\ lastOp'.name = lastOp.name /\ lastOp'.ver = lastOp.ver
      /\ lastOp'.archive = lastOp.archive)
     => /\ ~lastOp'.wrote
        /\ cacheEntries' = cacheEntries
        /\ cacheMeta' = cacheMeta
        /\ lastOp'.err = lastOp.err]_vars

\* C11: a Link of a package whose project path already is the symlink to
\* that package's cache entry succeeds and changes nothing: the symlink is
\* neither removed nor created again.  So the second of two Link calls for
\* the same package leaves the symlink the first call created.
C11_LinkIdempotent ==
  [][(lastOp'.op = "Link" /\ lastOp'.tick # lastOp.tick
      /\ links[lastOp'.name] = lastOp'.ver)
     => /\ ~lastOp'.wrote
        /\ ~lastOp'.err
        /\ links' = links]_vars

\* a Link found its own symlink, which an earlier Link call had created
C11_Witness ==
  /\ lastOp.op = "Link"
  /\ ~lastOp.wrote
  /\ ~lastOp.err
  /\ links[lastOp.name] = lastOp.ver
  /\ links0[lastOp.name] # lastOp.ver

\* C12: a Link of a package whose project path holds a symlink to another
\* target or a regular file replaces what is there, returns success and
\* leaves the path as the symlink to the package's cache entry.
C12_LinkReplaces ==
  [][(lastOp'.op = "Link" /\ lastOp'.tick # lastOp.tick
      /\ links[lastOp'.name] \notin {None, lastOp'.ver})
     => /\ ~lastOp'.err
        /\ links'[lastOp'.name] = lastOp'.ver]_vars

\* C13: with several processes on one cache root, an entry that a process
\* observes (Exists returns true), that a Store returns the path of, or that
\* a process links after such a call, is complete at that moment: every
\* member of the archive is extracted in full and the sidecar is written.
C13_ObservedEntryComplete ==
  \A q \in Procs :
    (proc[q].pc = "idle" /\ proc[q].op \in {"Exists", "Store", "Link"} /\ proc[q].ok)
      => proc[q].complete

\* C14: in every cache state each entry directory has its sidecar, the
\* sidecar records the name and the version of the directory name, and
\* LoadMetadata of an existing entry returns a record with that name and
\* version.
C14_SidecarMatchesEntry ==
  \A p \in Packages :
    Exists(PkgOf(p)) =>
      /\ p \in DOMAIN cacheMeta
      /\ cacheMeta[p].Name = p[1]
      /\ cacheMeta[p].Version = Ver(p[2])
      /\ ~LoadMetadata(PkgOf(p)).err
      /\ LoadMetadata(PkgOf(p)).pkg.Name = p[1]
      /\ LoadMetadata(PkgOf(p)).pkg.Version = Ver(p[2])

\* C15: the step of Install that has fetched an archive.  With a public key
\* and an archive whose signature does not verify, the install fails and
\* the cache and the project stay as they are.  With a public key and an
\* archive without signature.sig, the archive is stored and the install goes
\* on to link it.  With no public key the archive is stored whatever its
\* signature is.
C15_SignaturePolicy ==
  [][(At("Install", "fetch") /\ ~FetchPackageTarball(top.name, top.ver).err) =>
      LET f == FetchPackageTarball(top.name, top.ver)
          v == verifyTarball(f.tarball, pubKey)
          stored ==
            /\ cacheEntries' = StoreEntries(cacheEntries, cacheMeta, f.pkg)
            /\ cacheMeta' = StoreMeta(cacheEntries, cacheMeta, f.pkg, f.tarball)
            /\ cacheFiles' = StoreFiles(cacheEntries, cacheMeta, cacheFiles, outside,
                                        f.pkg, f.tarball)
      IN /\ (pubKey # 0 /\ v = "bad") =>
              /\ outcome' = "error"
              /\ UNCHANGED <<cacheEntries, cacheMeta, cacheFiles, outside, links>>
         /\ (pubKey # 0 /\ v = "unsigned") =>
              /\ stored
              /\ <<f.pkg.Name, f.pkg.Version.v>> \in cacheEntries'
              /\ outcome' = "running"
              /\ stack'[1].pc = "link"
         /\ pubKey = 0 =>
              /\ stored
              /\ (outcome' = "error") = StoreErr(cacheEntries, cacheMeta, f.pkg, f.tarball)
     ]_vars

\* with a key configured, the unsigned root was stored and linked, and the
\* install then failed at the dependency signed with another key
C15_Witness ==
  /\ pubKey # 0
  /\ outcome = "error"
  /\ verifyTarball(tarballs[<<"a", 1>>], pubKey) = "unsigned"
  /\ <<"a", 1>> \in storeOps
  /\ links["a"] = Ver(1)
  /\ verifyTarball(tarballs[<<"b", MaxVer>>], pubKey) = "bad"
  /\ <<"b", MaxVer>> \notin cacheEntries
  /\ links["b"] = None

\* C16: verifying with the matching public key the file that sign has just
\* written returns Verified, for every input file sign accepts.
C16_SignVerifyRoundTrip ==
  [][(verdict.op = "sign" /\ verdict.res = "ok"
      /\ verdict'.op = "verify" /\ verdict'.key = verdict.key)
     => verdict'.res = "verified"]_vars

\* C17: after a change of one bit outside signature.sig in a signed file
\* that verified with a key, verification with that key returns an error,
\* for the embedded form and for the detached form.
C17_FlipIsDetected ==
  [][(verdict.op = "flip"
      /\ \/ /\ verdict'.op = "verify"
            /\ verifyTarball(verdict.input, verdict'.key) = "verified"
         \/ /\ verdict'.op = "verifyDetached"
            /\ verifyPackageDetached(verdict.input, sigFile, verdict'.key) = "verified")
     => verdict'.res \in {"bad", "error"}]_vars

\* C18: the file sign writes has exactly one member named signature.sig, it
\* is the last member, and the members before it are the members of the
\* input file in their order.
C18_OneSignatureLast ==
  (verdict.op = "sign" /\ verdict.res = "ok") =>
    /\ Len(SelectSeq(pkgFile.entries, IsSig)) = 1
    /\ IsSig(pkgFile.entries[Len(pkgFile.entries)])
    /\ SubSeq(pkgFile.entries, 1, Len(pkgFile.entries) - 1) = verdict.input.entries

\* C19: Store writes nothing outside the entry directory, and a Store that
\* extracts an archive with a member whose name has ".." elements or is
\* absolute returns an error.
C19_StoreStaysInside ==
  /\ outside = "absent"
  /\ (lastOp.op = "Store" /\ lastOp.wrote
       /\ \E i \in 1..Len(lastOp.archive.entries) :
            lastOp.archive.entries[i].name \in {"package/../../x", "/x"})
     => lastOp.err

\* C20: a Store that extracts an archive with a member that is neither a
\* directory nor a regular file returns an error.
C20_OtherTypesRejected ==
  (lastOp.op = "Store" /\ lastOp.wrote
   /\ \E i \in 1..Len(lastOp.archive.entries) :
        lastOp.archive.entries[i].type \notin {"dir", "reg"})
    => lastOp.err

\* C21: for a range text that is a semver constraint, ResolveVersion returns
\* a key of the document's versions that satisfies the range and that no
\* satisfying key exceeds in precedence, whatever the keys are; when no key
\* satisfies the range it returns an error and the empty version.
C21_GreatestSatisfying ==
  \A i \in 1..Len(resolving.results) :
    IsConstraint(resolving.versionRange) =>
      LET ok == {t \in pkgData.Versions :
                   IsVersion(t) /\ Check(resolving.versionRange, t.v)}
          res == resolving.results[i]
      IN IF ok = {} THEN res.err /\ res.version = None
         ELSE /\ ~res.err
              /\ res.version \in ok
              /\ \A t \in ok : t.v <= res.version.v

\* a call returned the greater of two satisfying keys of a document that
\* also holds a key that is no version
C21_Witness ==
  /\ resolving.versionRange = Caret(1)
  /\ Len(resolving.results) > 0
  /\ Junk \in pkgData.Versions
  /\ \E t, u \in pkgData.Versions :
       /\ IsVersion(t) /\ IsVersion(u) /\ t.v < u.v
       /\ resolving.results[1] = [err |-> FALSE, version |-> u]

\* C22: for the range text latest, ResolveVersion returns the document's
\* dist-tags.latest as it stands, whatever the keys of versions are, and an
\* error when the document has no latest dist-tag.
C22_LatestIsDistTag ==
  \A i \in 1..Len(resolving.results) :
    resolving.versionRange = Latest =>
      resolving.results[i] =
        (IF pkgData.DistTags = None THEN [err |-> TRUE, version |-> None]
         ELSE [err |-> FALSE, version |-> pkgData.DistTags])

\* the tag names a version that is not among the keys, which hold a
\* greater one
C22_Witness ==
  /\ resolving.versionRange = Latest
  /\ pkgData.DistTags = Ver(1)
  /\ Ver(1) \notin pkgData.Versions
  /\ Ver(MaxVer) \in pkgData.Versions
  /\ Len(resolving.results) > 0
  /\ resolving.results[1] = [err |-> FALSE, version |-> Ver(1)]

\* C23: two calls of ResolveVersion with the same document and the same
\* range text return the same result, whatever the order in which the keys
\* of versions are iterated.
C23_SameVersionEveryCall ==
  \A i, j \in 1..Len(resolving.results) :
    resolving.results[i] = resolving.results[j]

\* C24: within one install invocation a (name, range text) pair comes to
\* one version: every use of the pair in the resolver and in the installer
\* after the first uses the version of the first.
C24_OneVersionPerPair ==
  \A x, y \in mapped : (x[1] = y[1] /\ x[2] = y[2]) => x[3] = y[3]

C27_PhaseOrder ==
  /\ (outcome = "running" /\ top.fn = "AddPackage") =>
       (storeOps = {} /\ linkOps = {} /\ installed = [n \in Names |-> None])
  /\ outcome = "conflict" => installed = [n \in Names |-> None]

\* C28: a step of the invocation in which a registry call, a cache
\* operation or the signature check returns an error ends the invocation
\* with that error; the invocation does not go on.
C28_NoErrorSwallowed ==
  [][StepFails => outcome' = "error"]_vars

\* C29: every conflict record names the package and two different versions
\* of it, and for each of the two versions a dependent: a node of the graph
\* of another name that declares a range on the package which resolves to
\* that version.
C29_ConflictNamesDependents ==
  \A i \in 1..Len(conflicts) :
    LET c == conflicts[i]
    IN /\ c.Package \in Names
       /\ c.Versions[1] # c.Versions[2]
       /\ \A k \in 1..2 :
            /\ c.Dependents[k][1] # c.Package
            /\ \E n \in nodes :
                 /\ <<n.Name, n.Version>> = c.Dependents[k]
                 /\ \E d \in n.Deps :
                      /\ d[1] = c.Package
                      /\ ResolveVersion(d[1], d[2]).version = c.Versions[k]

\* C30: every registry request of the invocation carries the header
\* Authorization: Bearer <token> when the command line gives a token and no
\* Authorization header when it gives none, and the requests for the
\* package document and the version document go to the registry URL of the
\* command line (the default URL when it gives none).
C30_TokenOnEveryRequest ==
  \A q \in requests :
    /\ q.auth = (IF cli.token = "" THEN <<>> ELSE <<"Bearer", cli.token>>)
    /\ q.kind \in {"document", "metadata"} =>
         q.base = (IF cli.registry = "" THEN DefaultURL ELSE cli.registry)

\* C31: a call of AddPackage that finds the name in the graph at another
\* version appends one conflict record [Package = name, Versions = <<v', v>>,
\* Dependents = <<name@v', name@v>>] and returns: it inserts no node for
\* name@v and does not go on to the dependencies of name@v.
C31_ConflictReturns ==
  [][(At("AddPackage", "start") /\ conflicts' # conflicts) =>
       /\ Len(conflicts') = Len(conflicts) + 1
       /\ LET c == conflicts'[Len(conflicts')]
          IN /\ c.Package = top.name
             /\ c.Versions[2] = ResolveVersion(top.name, top.ver).version
             /\ c.Dependents = <<<<top.name, c.Versions[1]>>, <<top.name, c.Versions[2]>>>>
             /\ \E n \in nodes : n.Name = top.name /\ n.Version = c.Versions[1]
       /\ nodes' = nodes
       /\ stack' = Tail(stack)]_vars

\* the lexicographic order of the package names
NameRank(n) == CASE n = "a" -> 1 [] n = "b" -> 2 [] n = "c" -> 3 [] OTHER -> 0

\* C32: the resolver recurses on the dependencies of a node in the
\* lexicographic order of their names: the dependency it takes next is the
\* one of the least name among those it has not taken yet, so that the
\* subtree of a is resolved before b is resolved when a < b.
C32_DepsInNameOrder ==
  [][(At("AddPackage", "deps") /\ top.todo # {}) =>
       \E d \in top.todo :
         /\ \A e \in top.todo : NameRank(d[1]) <= NameRank(e[1])
         /\ stack'[1] = Frame("AddPackage", "start", d[1], d[2], {})]_vars

\* the frames of the installer that are in their loop over the
\* dependencies of a package
DescendingFrames ==
  {i \in 1..Len(stack) :
     stack[i].fn \in {"Install", "installCachedDep"} /\ stack[i].pc = "deps"}

\* C33: within one invocation a package is linked and recorded as installed
\* only when its cache entry is there (stored before, or cached already),
\* and the installer is in the loop over the dependencies of a package, or
\* anywhere below it, only with that package linked and recorded.
C33_StoreLinkDescend ==
  /\ [][\A n \in Names :
          installed'[n] # installed[n] =>
            /\ installed'[n].op = "eq"
            /\ <<n, installed'[n].v>> \in cacheEntries
            /\ links'[n] = installed'[n]]_vars
  /\ [](\A i \in DescendingFrames :
          /\ installed[stack[i].name] = stack[i].ver
          /\ links[stack[i].name] = stack[i].ver
          /\ <<stack[i].name, stack[i].ver.v>> \in cacheEntries)

\* a is stored and linked in this invocation, and the installer is at the
\* dependency b of a
C33_Witness ==
  /\ outcome = "running"
  /\ <<"a", 1>> \in storeOps
  /\ "a" \in linkOps
  /\ Len(stack) = 2
  /\ top.fn = "installDependency"
  /\ top.name = "b"
  /\ stack[2].fn = "Install"
  /\ stack[2].name = "a"

\* what the steps of a local install come to on the file of the invocation
LocalVerified == pubKey = 0 \/ ~VerifyFails(verifyTarball(pkgFile, pubKey))

LocalPkg == extractPackageMetadata(pkgFile)

LocalStored ==
  ~StoreErr(cache0, SidecarsOf(registry, cache0), LocalPkg.pkg, pkgFile)

NothingStored == storeOps = {} /\ cacheEntries = cache0

NothingLinked ==
  linkOps = {} /\ links = links0 /\ installed = [n \in Names |-> None]

\* C34: an install of a local file verifies the signature (when a key is
\* configured), extracts package.json, stores, links and then installs the
\* declared dependencies, in this order, and a step that fails prevents
\* every later step: nothing is stored unless the verification and the
\* extraction passed, nothing is linked unless the store passed too, no
\* dependency is touched before the package is linked and recorded, a
\* successful invocation has the package and every declared dependency
\* installed, and nothing happens after the invocation has ended.
C34_LocalInstallOrder ==
  /\ [](~(LocalVerified /\ ~LocalPkg.err) => (NothingStored /\ outcome # "ok"))
  /\ [](~(LocalVerified /\ ~LocalPkg.err /\ LocalStored) =>
          (NothingLinked /\ outcome # "ok"))
  /\ []((netCalls > 0 \/ Len(stack) > 1 \/
         \E n \in Names : n # LocalPkg.pkg.Name /\ installed[n] # None) =>
          /\ LocalVerified /\ ~LocalPkg.err /\ LocalStored
          /\ Exists(LocalPkg.pkg)
          /\ links[LocalPkg.pkg.Name] = LocalPkg.pkg.Version
          /\ installed[LocalPkg.pkg.Name] = LocalPkg.pkg.Version)
  /\ [](outcome = "ok" =>
          /\ installed[LocalPkg.pkg.Name] = LocalPkg.pkg.Version
          /\ \A d \in LocalPkg.pkg.Deps :
               installed[d[1]] # None /\ links[d[1]] = installed[d[1]])
  /\ [][outcome = "running"]_vars

\* a file signed with the configured key is installed with its dependencies
\* b and c, b from the cache and c from the registry
C34_Witness ==
  /\ outcome = "ok"
  /\ pubKey = 1
  /\ verifyTarball(pkgFile, pubKey) = "verified"
  /\ <<"a", 1>> \in storeOps
  /\ "a" \in linkOps
  /\ LocalPkg.pkg.Deps = {<<"b", Ver(1)>>, <<"c", Latest>>}
  /\ <<"b", 1>> \in cache0
  /\ <<"c", 1>> \in storeOps
  /\ installed["b"] = Ver(1)
  /\ installed["c"] = Ver(1)

\* the step is a successful Cache.Link of a package named n: the caller
\* goes on to its loop over the dependencies
LinksName(n) ==
  /\ stack' # <<>>
  /\ Len(stack') = Len(stack)
  /\ top.pc # "deps"
  /\ stack'[1].pc = "deps"
  /\ stack'[1].fn \in {"Install", "installCachedDep", "installLocalPackage"}
  /\ stack'[1].name = n

\* C35: within one invocation the installed map is write-once per name: for
\* a name that is recorded, no step changes the recorded version, stores an
\* entry of that name, changes its link or links it again.
C35_InstalledWriteOnce ==
  [][\A n \in Names :
       installed[n] # None =>
         /\ installed'[n] = installed[n]
         /\ links'[n] = links[n]
         /\ \A k \in VersionsOf(n) :
              /\ <<n, k>> \in storeOps' => <<n, k>> \in storeOps
              /\ <<n, k>> \in cacheEntries' => <<n, k>> \in cacheEntries
         /\ ~LinksName(n)]_vars

\* b is recorded at 1.1.0 and the installer arrives at the cached b 1.2.0
C35_Witness ==
  /\ At("installCachedDep", "start")
  /\ top.name = "b"
  /\ top.ver = Ver(2)
  /\ installed["b"] = Ver(1)
  /\ links["b"] = Ver(1)

\* C36: for a root range text that the resolver accepts, the version the
\* installer passes to FetchPackageTarball for the root is the concrete
\* version the resolver chose for the root, never the range text.
C36_RootFetchesResolved ==
  (At("Install", "fetch") /\ Len(stack) = 1 /\ IsConstraint(rootSpec.ver)) =>
    /\ IsVersion(top.ver)
    /\ top.ver = ResolveVersion(rootSpec.name, rootSpec.ver).version

\* C37: what GetCachedVersions(name) returns to installDependency is
\* exactly the versions of which the cache holds an entry directory of the
\* package name; sidecar files and entries of other packages are not among
\* them.
C37_CachedVersionsExact ==
  At("installDependency", "start") =>
    LET versions == GetCachedVersions(top.name)
    IN {versions[i] : i \in 1..Len(versions)} =
         {Ver(k) : k \in {j \in VersionsOf(top.name) : <<top.name, j>> \in cacheEntries}}

\* C38: after a Store that returned an error the cache has no entry for the
\* package: Exists is false, so that a later Store extracts again.
C38_FailedStoreLeavesNothing ==
  (lastOp.op = "Store" /\ lastOp.err) =>
    /\ ~Exists([Name |-> lastOp.name, Version |-> lastOp.ver, Deps |-> {}])
    /\ StoreWrites(cacheEntries, cacheMeta,
                   [Name |-> lastOp.name, Version |-> lastOp.ver, Deps |-> {}])

\* the unordered pairs of nodes of the same name (and so of two versions)
VersionPairs ==
  {S \in SUBSET NodeKeys : Cardinality(S) = 2 /\ \A x, y \in S : x[1] = y[1]}

\* the pair of nodes a conflict record is about
RecordPair(c) == {<<c.Package, c.Versions[1]>>, <<c.Package, c.Versions[2]>>}

\* C39: once AddPackage has returned to Install, the conflict list has
\* exactly one record for every pair of two versions of a name in the graph
\* and no other record, and HasConflicts is true exactly when the graph has
\* such a pair.
C39_OneRecordPerPair ==
  At("Install", "solved") =>
    /\ \A S \in VersionPairs :
         Cardinality({i \in 1..Len(conflicts) : RecordPair(conflicts[i]) = S}) = 1
    /\ \A i \in 1..Len(conflicts) : RecordPair(conflicts[i]) \in VersionPairs
    /\ HasConflicts <=> VersionPairs # {}

\* the resolver has returned to the root Install with b at 1.1.0 and 1.2.0
C39_Witness ==
  /\ At("Install", "solved")
  /\ Len(stack) = 1
  /\ Len(conflicts) = 1
  /\ {<<"b", Ver(1)>>, <<"b", Ver(2)>>} \in VersionPairs

\* the frames of the materialization on the call stack
InstallerFrames ==
  {i \in 1..Len(stack) :
     stack[i].fn \in {"Install", "installDependency", "installCachedDep"}}

\* C40: the recursion of Install, installDependency and installCachedDep
\* ends for every registry and cache, with cycles in the dependency graph
\* and with back edges whose range the installed version does not satisfy:
\* the recursion is never deeper than one frame per package name and the one
\* at work, and every invocation comes to its end.
C40_InstallTerminates ==
  /\ [](Cardinality(InstallerFrames) <= Cardinality(Names) + 1)
  /\ (outcome = "running") ~> (outcome # "running")

\* b 1.1.0 from the cache requires c, c requires the latest b, which is
\* 1.2.0: the installer came back to b with b installed at 1.1.0, and the
\* invocation ended
C40_Witness ==
  /\ outcome = "ok"
  /\ <<"c", Latest>> \in registry[<<"b", 1>>]
  /\ <<"b", Latest>> \in registry[<<"c", 1>>]
  /\ installed["b"] = Ver(1)
  /\ installed["c"] = Ver(1)
  /\ <<"b", Latest, Ver(2)>> \in mapped

====
